---- MODULE Spec2Model ----
(***************************************************************************)
(* OpenMeters capture + metering pipeline.                                 *)
(*                                                                         *)
(* WasapiCapture (src/core/audio/audio-engine.h lines 84-494 hold its      *)
(* implementation, src/core/audio/wasapi-capture.h its fields) and the     *)
(* AudioEngine facade (src/core/audio/audio-engine.cpp).  Caller threads   *)
(* issue the lifecycle calls step by step, the capture thread runs the     *)
(* polling loop and the two nested fan-outs, and the device is the         *)
(* environment: every HRESULT it returns is a nondeterministic choice.     *)
(* The samples of a packet go through processAudioData, convertToFloat32   *)
(* and the two level meters into the snapshot the observers receive.       *)
(***************************************************************************)
EXTENDS Integers, Sequences, FiniteSets, TLC

\* ---------------------------------------------------------------- bounds
MaxBuffers == 2      \* data buffers the device hands out in one run
MaxCallbacks == 2    \* longest registration list (each of the two lists)
MaxCalls == 4        \* lifecycle calls in a logged run
MaxSamples == 3      \* samples (frames x channels) in one packet of the data runs

\* ------------------------------------------------------------ identities
Callers == {"c1", "c2"}           \* threads issuing lifecycle calls
CapThreads == {"k1", "k2"}        \* OS thread objects CreateThread can return
Observers == {"A", "B"}           \* external IAudioDataCallback objects
Metering == "M"                   \* AudioEngine::m_meteringCallback
NullCb == "null"                  \* a null IAudioDataCallback*
Null == "null"                    \* a null handle
Free == "free"                    \* an unlocked std::mutex

Range(s) == { s[n] : n \in 1..Len(s) }

\* wFormatTag values
WAVE_FORMAT_PCM == "PCM"
WAVE_FORMAT_IEEE_FLOAT == "FLOAT"
WAVE_FORMAT_EXTENSIBLE == "EXT"

\* m_format.channelCount of a default-constructed common::AudioFormat
DefaultChannelCount == 2

WaveFormat(tag, bits, ch) == [wFormatTag |-> tag, wBitsPerSample |-> bits, nChannels |-> ch]

\* m_waveFormat == nullptr
NullFormat == WaveFormat("null", 0, 0)

\* The mix formats the device may negotiate in GetMixFormat.
DeviceFormats ==
    { WaveFormat(WAVE_FORMAT_IEEE_FLOAT, 32, 2),
      WaveFormat(WAVE_FORMAT_PCM, 16, 1),
      WaveFormat(WAVE_FORMAT_PCM, 24, 2),
      WaveFormat(WAVE_FORMAT_PCM, 16, 6),
      WaveFormat(WAVE_FORMAT_EXTENSIBLE, 32, 2) }

\* The system calls of initialize() that can fail, in the order the code makes
\* them; "none" stands for a run in which all of them succeed.
InitCalls == <<"CoInitializeEx", "CoCreateInstance", "GetDefaultAudioEndpoint",
               "Activate", "GetMixFormat", "Initialize", "GetService", "CreateEvent">>
\* CoInitializeEx failing with RPC_E_CHANGED_MODE: the thread already has COM
\* initialized in another mode, by somebody else; initialize() goes on.
RPC_E_CHANGED_MODE == "RPC_E_CHANGED_MODE"
InitFailures == Range(InitCalls) \cup {RPC_E_CHANGED_MODE, "none"}

\* ------------------------------------------------------------ sample data
\* A float sample is counted in units of 1/32768: Unit stands for 1.0f.  Every
\* int16 sample and its product with 1.0f / 32768.0f is exact in a float, and
\* so is every value below.
Unit == 32768

\* const float scale = 1.0f / 32768.0f;  the divisor for int16 samples
Int16Scale == 32768
\* const float scale = 1.0f / 2147483648.0f;  the divisor for int32 samples is
\* Int32PerUnit times Unit
Int32PerUnit == 65536

\* Raw samples the device may put into a packet, per sample representation:
\* floats (-1.5, -0.8, 0.3 and 0.5 to the nearest 1/1024), int16 values,
\* int32 values that are multiples of 65536, and words of any other layout.
\* A 64-bit float 0.5 is the two 32-bit words 0x00000000 and 0x3FE00000, which
\* read as floats are 0.0 and 1.75.
FloatSamples == {-49152, -26208, 9824, 16384}
Int16Samples == {-32768, -1, 16384, 32767}
Int32Samples == {-2147418112, 65536, 1073741824}
DoubleWords == {0, 57344}
OtherSamples == {-1, 255}

\* For a format wider than 32 bits the packet is given as the 32-bit words the
\* converter reads, numFrames * channels of them.
RawSamples(wf) ==
    IF wf.wFormatTag = WAVE_FORMAT_IEEE_FLOAT
        THEN IF wf.wBitsPerSample = 32 THEN FloatSamples ELSE DoubleWords
    ELSE IF wf.wFormatTag = WAVE_FORMAT_PCM /\ wf.wBitsPerSample = 16 THEN Int16Samples
    ELSE IF wf.wFormatTag = WAVE_FORMAT_PCM /\ wf.wBitsPerSample = 32 THEN Int32Samples
    ELSE OtherSamples

\* What a read past the end of a packet may find: the least or the greatest
\* sample of the representation.
BeyondSamples(wf) ==
    { x \in RawSamples(wf) : \/ \A y \in RawSamples(wf) : x <= y
                             \/ \A y \in RawSamples(wf) : y <= x }

\* What GetBuffer hands out: the AUDCLNT_BUFFERFLAGS_SILENT bit of flags,
\* numFramesAvailable, and the interleaved samples behind pData.
Packet(silent, numFrames, data) == [silent |-> silent, numFrames |-> numFrames, data |-> data]
NoPacket == Packet(FALSE, 0, <<>>)

\* What the device delivers in the runs that are about threads and calls,
\* where nothing is playing: one frame flagged silent, whose bytes are not read.
QuietPackets == { Packet(TRUE, 1, <<>>) }

\* Every packet of up to MaxSamples samples, flagged silent or not.
SamplePackets(wf) ==
    UNION { { Packet(silent, numFrames, data) :
                silent \in BOOLEAN,
                data \in [1..(numFrames * wf.nChannels) -> RawSamples(wf)] } :
            numFrames \in { n \in 1..MaxSamples : n * wf.nChannels <= MaxSamples } }

\* The mix formats of the data runs: all of them pass the checks of
\* initialize(), two of them with a bit depth the converter has no branch for
\* and one with 64-bit floats.
DataFormats ==
    { WaveFormat(WAVE_FORMAT_IEEE_FLOAT, 32, 1),
      WaveFormat(WAVE_FORMAT_IEEE_FLOAT, 64, 1),
      WaveFormat(WAVE_FORMAT_IEEE_FLOAT, 32, 2),
      WaveFormat(WAVE_FORMAT_PCM, 16, 1),
      WaveFormat(WAVE_FORMAT_PCM, 16, 2),
      WaveFormat(WAVE_FORMAT_PCM, 32, 2),
      WaveFormat(WAVE_FORMAT_PCM, 24, 2),
      WaveFormat(WAVE_FORMAT_PCM, 8, 1) }

\* std::vector<float>::resize(n): kept elements keep their value, new ones are 0.0f.
Resize(buffer, n) == [d \in 1..n |-> IF d <= Len(buffer) THEN buffer[d] ELSE 0]

\* The converter scaling int16 samples by 1/32767.
ConvertSampleBy32767(wf, x) ==
    IF wf.wFormatTag = WAVE_FORMAT_IEEE_FLOAT THEN x
    ELSE IF wf.wFormatTag = WAVE_FORMAT_PCM
        THEN IF wf.wBitsPerSample = 16 THEN (x * Unit) \div (Int16Scale - 1)
             ELSE IF wf.wBitsPerSample = 32 THEN x \div Int32PerUnit
             ELSE 0
    ELSE 0

\* One sample through the branches of convertToFloat32: a float is copied, an
\* int16 is multiplied by 1/32768, an int32 by 1/2147483648, and anything
\* else gives 0.0f.
ConvertSample(wf, x) ==
    IF wf.wFormatTag = WAVE_FORMAT_IEEE_FLOAT THEN x
    ELSE IF wf.wFormatTag = WAVE_FORMAT_PCM
        THEN IF wf.wBitsPerSample = 16 THEN (x * Unit) \div Int16Scale
             ELSE IF wf.wBitsPerSample = 32 THEN x \div Int32PerUnit
             ELSE 0
    ELSE 0

\* convertToFloat32(pSource, pDest, numFrames) under the format wf: returns
\* pDest untouched for a null format or no frames, and otherwise writes
\* numFrames * channels samples, destIdx = srcIdx = frame * channels + ch.
\* A source index past the end of the packet (the format was replaced while
\* the packet was in hand) reads whatever lies there: beyond.
convertToFloat32(wf, pSource, pDest, numFrames, beyond) ==
    IF wf = NullFormat \/ numFrames = 0 THEN pDest
    ELSE LET channels == wf.nChannels IN
         [d \in 1..Len(pDest) |->
             IF d > numFrames * channels THEN pDest[d]
             ELSE LET frame == (d - 1) \div channels
                      ch == (d - 1) % channels
                      srcIdx == frame * channels + ch
                  IN ConvertSample(wf, IF srcIdx + 1 <= Len(pSource) THEN pSource[srcIdx + 1]
                                                                    ELSE beyond)]

\* processAudioData running the converter on a packet flagged silent too.
processAudioDataNoSilence(wf, format, buffer, packet, beyond) ==
    convertToFloat32(wf, packet.data,
                     Resize(buffer, packet.numFrames * format.channelCount), packet.numFrames,
                     beyond)

\* processAudioData up to the fan-out: the new contents of m_floatBuffer.
\* samplesPerFrame() of the format is its channelCount.
processAudioData(wf, format, buffer, packet, beyond) ==
    LET totalSamples == packet.numFrames * format.channelCount IN
    IF packet.silent THEN [d \in 1..totalSamples |-> 0]
    ELSE convertToFloat32(wf, packet.data, Resize(buffer, totalSamples), packet.numFrames,
                          beyond)

VARIABLES
    \* WasapiCapture fields
    m_comInitialized, m_deviceEnumerator, m_device, m_audioClient, m_captureClient,
    m_waveFormat, m_format, m_stopEvent,
    m_capturing, m_captureThread,
    m_callbacks, m_callbackMutex,
    \* AudioEngine fields
    eng_callbacks, eng_callbackMutex,
    \* the operating system and the device
    stopSignaled,      \* state of the manual-reset event behind m_stopEvent
    streamRunning,     \* IAudioClient between Start() and Stop()
    bufferHeld,        \* a GetBuffer packet not yet given back by ReleaseBuffer
    comOwned,          \* a successful CoInitializeEx of initialize() awaits its CoUninitialize
    comUnbalanced,     \* CoUninitialize was called with no such CoInitializeEx to balance
    devSeq,            \* number of data packets the device has handed out
    \* threads
    thr,               \* capture threads: position in captureThread() and its locals
    cl,                \* caller threads: position in the call they are making
    \* the data path of the capture thread
    pData,             \* the packet GetBuffer returned and ReleaseBuffer has not taken back
    m_floatBuffer,     \* WasapiCapture::m_floatBuffer
    snapshot,          \* the MeterSnapshot MeteringCallback::onAudioData built last
    \* observation
    got                \* per observer, the last packet whose snapshot reached it

handles == <<m_comInitialized, m_deviceEnumerator, m_device, m_audioClient,
             m_captureClient, m_waveFormat, m_format, m_stopEvent,
             comOwned, comUnbalanced>>
capstate == <<m_capturing, m_captureThread>>
caplist == <<m_callbacks, m_callbackMutex>>
englist == <<eng_callbacks, eng_callbackMutex>>
device == <<stopSignaled, streamRunning, bufferHeld, devSeq>>
datapath == <<pData, m_floatBuffer, snapshot>>
vars == <<handles, capstate, caplist, englist, device, thr, cl, got, datapath>>

\* ------------------------------------------------------------ level meters
Abs(x) == IF x < 0 THEN -x ELSE x

\* The samples of channel c (1 is left) in an interleaved buffer.
ChannelSamples(floats, frameCount, channels, c) ==
    [f \in 1..frameCount |-> floats[(f - 1) * channels + c]]

\* A level that is not clamped.
ClampNone(x) == x

\* Clamp to [0.0, 1.0].
Clamp01(x) == IF x < 0 THEN 0 ELSE IF x > Unit THEN Unit ELSE x

\* A peak meter with hold: never below the left peak of the snapshot before.
PeakLevelHold(samples) ==
    LET abs == { Abs(samples[n]) : n \in 1..Len(samples) } \cup {snapshot.peak.left} IN
    Clamp01(CHOOSE m \in abs : \A x \in abs : x <= m)

\* Peak of one channel: the largest absolute value, clamped.
PeakLevel(samples) ==
    IF Len(samples) = 0 THEN 0
    ELSE LET abs == { Abs(samples[n]) : n \in 1..Len(samples) } IN
         Clamp01(CHOOSE m \in abs : \A x \in abs : x <= m)

\* Squares are taken in units of 1/1024, to stay inside 32-bit integers.
RmsGrain == 32
Square(x) == (Abs(x) \div RmsGrain) * (Abs(x) \div RmsGrain)

RECURSIVE SumSquares(_)
SumSquares(samples) ==
    IF Len(samples) = 0 THEN 0 ELSE Square(Head(samples)) + SumSquares(Tail(samples))

\* The integer square root of n, searched between lo and hi (lo^2 <= n < hi^2).
RECURSIVE SqrtBetween(_, _, _)
SqrtBetween(n, lo, hi) ==
    IF hi - lo <= 1 THEN lo
    ELSE LET mid == (lo + hi) \div 2 IN
         IF mid * mid <= n THEN SqrtBetween(n, mid, hi) ELSE SqrtBetween(n, lo, mid)

\* Square root of a mean of squares of samples below 2.0, back in units of 1/32768.
Sqrt(n) == RmsGrain * SqrtBetween(n, 0, (2 * Unit) \div RmsGrain)

\* An RMS that takes the root of the sum of squares, not of their mean.
RmsLevelNoMean(samples) ==
    IF Len(samples) = 0 THEN 0
    ELSE Clamp01(Sqrt(SumSquares(samples)))

\* RMS of one channel: sum of squares, divided by the sample count, square
\* root, clamped; no sample gives 0.0.
RmsLevel(samples) ==
    IF Len(samples) = 0 THEN 0
    ELSE Clamp01(Sqrt(SumSquares(samples) \div Len(samples)))

\* A Per-Channel Level: for mono, right is equal to left.
Level(left, right) == [left |-> left, right |-> right]

\* A peak meter that scans the whole buffer, whatever frameCount says.
PeakMeterWholeBuffer(floats, frameCount, format) ==
    LET frames == Len(floats) \div format.channelCount
        left == PeakLevel(ChannelSamples(floats, frames, format.channelCount, 1)) IN
    Level(left, IF format.channelCount = 1 THEN left
                ELSE PeakLevel(ChannelSamples(floats, frames, format.channelCount, 2)))

PeakMeter(floats, frameCount, format) ==
    LET left == PeakLevel(ChannelSamples(floats, frameCount, format.channelCount, 1)) IN
    Level(left, IF format.channelCount = 1 THEN left
                ELSE PeakLevel(ChannelSamples(floats, frameCount, format.channelCount, 2)))

RmsMeter(floats, frameCount, format) ==
    LET left == RmsLevel(ChannelSamples(floats, frameCount, format.channelCount, 1)) IN
    Level(left, IF format.channelCount = 1 THEN left
                ELSE RmsLevel(ChannelSamples(floats, frameCount, format.channelCount, 2)))

\* common::MeterSnapshot; timestampMs is always 0.
MeterSnapshot(peak, rms) == [peak |-> peak, rms |-> rms, timestampMs |-> 0]
NoSnapshot == MeterSnapshot(Level(0, 0), Level(0, 0))

\* MeteringCallback::onAudioData: the snapshot it forwards; with no frames it
\* returns before the meters run and the last snapshot stays.
onAudioData(last, buffer, frameCount, format) ==
    IF frameCount = 0 THEN last
    ELSE MeterSnapshot(PeakMeter(buffer, frameCount, format),
                       RmsMeter(buffer, frameCount, format))

\* A capture thread: its position, the stop event in its waitArray (non-null
\* or not), the indices of the two fan-out loops, the loop variable callback of
\* forwardMeterData, the packet in hand, whether a GetBuffer of this thread
\* has failed, and how many GetBuffer calls it has made after a stop() had
\* cleared the flag and set the event (0, 1, or 2 for more than one).
ThreadIdle == [pc |-> "none", wev |-> FALSE, i |-> 0, j |-> 0, cb |-> NullCb,
               buf |-> 0, failed |-> FALSE, late |-> 0]
\* A caller thread: its position, the call it is in, the value the call
\* returned (for stop(): whether it went past its early return), the return
\* statement it left through, the handle CreateThread gave it, and the calls
\* it has completed so far (kept only by the specifications that log them).
CallerIdle == [pc |-> "idle", op |-> "none", res |-> FALSE, site |-> "none",
               h |-> Null, log |-> <<>>]

Alive(k) == thr[k].pc \notin {"none", "exited"}

Init ==
    /\ m_comInitialized = FALSE
    /\ m_deviceEnumerator = FALSE
    /\ m_device = FALSE
    /\ m_audioClient = FALSE
    /\ m_captureClient = FALSE
    /\ m_waveFormat = NullFormat
    /\ m_format = [channelCount |-> DefaultChannelCount]
    /\ m_stopEvent = FALSE
    /\ m_capturing = FALSE
    /\ m_captureThread = Null
    /\ m_callbacks = <<>>
    /\ m_callbackMutex = Free
    /\ eng_callbacks = <<>>
    /\ eng_callbackMutex = Free
    /\ stopSignaled = FALSE
    /\ streamRunning = FALSE
    /\ bufferHeld = FALSE
    /\ devSeq = 0
    /\ comOwned = FALSE
    /\ comUnbalanced = FALSE
    /\ thr = [k \in CapThreads |-> ThreadIdle]
    /\ cl = [t \in Callers |-> CallerIdle]
    /\ got = [o \in Observers |-> 0]
    /\ pData = NoPacket
    /\ m_floatBuffer = <<>>
    /\ snapshot = NoSnapshot

\* ------------------------------------------------- WasapiCapture::initialize
\* The fields initialize() and the release helpers work on, as one record.
Fields ==
    [com |-> m_comInitialized, en |-> m_deviceEnumerator, dev |-> m_device,
     ac |-> m_audioClient, cc |-> m_captureClient, wf |-> m_waveFormat,
     ch |-> m_format.channelCount, ev |-> m_stopEvent,
     own |-> comOwned, unbal |-> comUnbalanced]

\* releaseCom() that forgets m_comInitialized = false.
releaseComKeepsFlag(f) ==
    IF f.com THEN [f EXCEPT !.own = FALSE, !.unbal = @ \/ ~f.own]
             ELSE f

\* releaseCom(): CoUninitialize when m_comInitialized is set, and nothing else.
releaseCom(f) ==
    IF f.com THEN [f EXCEPT !.com = FALSE, !.own = FALSE, !.unbal = @ \/ ~f.own]
             ELSE f

\* releaseAudioClient(): releases and nulls every interface and the format.
releaseAudioClient(f) ==
    [f EXCEPT !.cc = FALSE, !.ac = FALSE, !.dev = FALSE, !.en = FALSE, !.wf = NullFormat]

\* The format checks of initialize(): the tag, then the channel count.
FormatTagValid(wf) == wf.wFormatTag \in {WAVE_FORMAT_PCM, WAVE_FORMAT_IEEE_FLOAT}
ChannelCountValid(ch) == ~(ch < 1 \/ ch > 2)

\* initialize() run to its return on fields f, with the system call failAt
\* failing (or none) and the device negotiating the mix format wf.  A failing
\* call leaves NULL in its out-parameter, as COM and CreateEvent document.
initialize(f, failAt, wf) ==
    IF f.com THEN [ok |-> TRUE, site |-> "already", f |-> f]
    ELSE IF failAt = "CoInitializeEx" THEN [ok |-> FALSE, site |-> failAt, f |-> f]
    ELSE LET s1 == [f EXCEPT !.com = TRUE, !.own = (failAt # RPC_E_CHANGED_MODE)] IN
    IF failAt = "CoCreateInstance"
        THEN [ok |-> FALSE, site |-> failAt, f |-> releaseCom([s1 EXCEPT !.en = FALSE])]
    ELSE LET s2 == [s1 EXCEPT !.en = TRUE] IN
    IF failAt = "GetDefaultAudioEndpoint"
        THEN [ok |-> FALSE, site |-> failAt, f |-> releaseCom([s2 EXCEPT !.dev = FALSE])]
    ELSE LET s3 == [s2 EXCEPT !.dev = TRUE] IN
    IF failAt = "Activate"
        THEN [ok |-> FALSE, site |-> failAt, f |-> releaseCom([s3 EXCEPT !.ac = FALSE])]
    ELSE LET s4 == [s3 EXCEPT !.ac = TRUE] IN
    IF failAt = "GetMixFormat"
        THEN [ok |-> FALSE, site |-> failAt, f |-> releaseCom([s4 EXCEPT !.wf = NullFormat])]
    ELSE LET s5 == [s4 EXCEPT !.wf = wf] IN
    IF ~FormatTagValid(wf)
        THEN [ok |-> FALSE, site |-> "tag", f |-> releaseCom([s5 EXCEPT !.wf = NullFormat])]
    ELSE LET s6 == [s5 EXCEPT !.ch = wf.nChannels] IN
    IF ~ChannelCountValid(s6.ch)
        THEN [ok |-> FALSE, site |-> "channels", f |-> releaseCom([s6 EXCEPT !.wf = NullFormat])]
    ELSE IF failAt = "Initialize"
        THEN [ok |-> FALSE, site |-> failAt, f |-> releaseCom([s6 EXCEPT !.wf = NullFormat])]
    ELSE IF failAt = "GetService"
        THEN [ok |-> FALSE, site |-> failAt, f |-> releaseCom([s6 EXCEPT !.cc = FALSE])]
    ELSE LET s7 == [s6 EXCEPT !.cc = TRUE] IN
    IF failAt = "CreateEvent"
        THEN [ok |-> FALSE, site |-> failAt, f |-> releaseCom([s7 EXCEPT !.ev = FALSE])]
    ELSE [ok |-> TRUE, site |-> "end", f |-> [s7 EXCEPT !.ev = TRUE]]

\* Writes a Fields record back to the member variables.
SetFields(f) ==
    /\ m_comInitialized' = f.com
    /\ m_deviceEnumerator' = f.en
    /\ m_device' = f.dev
    /\ m_audioClient' = f.ac
    /\ m_captureClient' = f.cc
    /\ m_waveFormat' = f.wf
    /\ m_format' = [m_format EXCEPT !.channelCount = f.ch]
    /\ m_stopEvent' = f.ev
    /\ comOwned' = f.own
    /\ comUnbalanced' = f.unbal

\* getFormat() and isCapturing()
getFormat == m_format
isCapturing == m_capturing

\* ------------------------------------------------------ registration lists
\* registerCallback without the null test: push_back of whatever comes.
registerNoNullCheck(list, cb) == Append(list, cb)

\* registerCallback putting the new observer in front (insert at begin()).
registerInFront(list, cb) == IF cb = NullCb THEN list ELSE <<cb>> \o list

\* registerCallback: a null pointer is ignored, anything else is appended.
registerCallback(list, cb) == IF cb = NullCb THEN list ELSE Append(list, cb)

\* unregisterCallback erasing only the first element equal to cb (find + erase).
unregisterFirstOnly(list, cb) ==
    IF cb = NullCb \/ cb \notin Range(list) THEN list
    ELSE LET p == CHOOSE n \in 1..Len(list) :
                    list[n] = cb /\ \A m \in 1..(n - 1) : list[m] # cb
         IN SubSeq(list, 1, p - 1) \o SubSeq(list, p + 1, Len(list))

\* unregisterCallback: a null pointer is ignored; std::remove + erase drops
\* every element equal to cb.
unregisterCallback(list, cb) ==
    IF cb = NullCb THEN list ELSE SelectSeq(list, LAMBDA x : x # cb)

\* ------------------------------------------------------------ caller steps
At(t, pc) == cl[t].pc = pc
Goto(t, pc) == cl' = [cl EXCEPT ![t].pc = pc]
Enter(t, op, pc) ==
    cl' = [cl EXCEPT ![t] = [CallerIdle EXCEPT !.op = op, !.pc = pc, !.log = cl[t].log]]
\* return res through the return statement site
RetAt(t, op, res, site) ==
    cl' = [cl EXCEPT ![t] = [CallerIdle EXCEPT !.op = op, !.res = res, !.site = site,
                                               !.pc = "ret", !.log = cl[t].log]]
\* return res through the last return statement of the function
Ret(t, op, res) == RetAt(t, op, res, "end")

\* The call has returned to the application, which goes on to its next call.
Return(t) ==
    /\ At(t, "ret")
    /\ cl' = [cl EXCEPT ![t] = [CallerIdle EXCEPT !.log = cl[t].log]]
    /\ UNCHANGED <<handles, capstate, caplist, englist, device, thr, got, datapath>>

\* The same, with the completed call written to the caller's log.
Call(op, res, site) == [op |-> op, res |-> res, site |-> site]

ReturnLogged(t) ==
    /\ At(t, "ret")
    /\ cl' = [cl EXCEPT ![t] = [CallerIdle EXCEPT !.log =
                 Append(cl[t].log, Call(cl[t].op, cl[t].res, cl[t].site))]]
    /\ UNCHANGED <<handles, capstate, caplist, englist, device, thr, got, datapath>>

\* AudioEngine::initialize(), first half: m_capture.initialize(), with the
\* failing call drawn from failures and the mix format from formats.  A
\* further call is made only while the registration list has room.
EngInitialize(t, failures, formats) ==
    /\ At(t, "idle")
    /\ Len(m_callbacks) < MaxCallbacks
    /\ \E failAt \in failures, wf \in formats :
         LET r == initialize(Fields, failAt, wf) IN
         /\ SetFields(r.f)
         /\ stopSignaled' = IF r.f.ev /\ ~m_stopEvent THEN FALSE ELSE stopSignaled
         /\ IF r.ok THEN cl' = [cl EXCEPT ![t].op = "initialize", ![t].site = r.site,
                                           ![t].pc = "init_register"]
                    ELSE RetAt(t, "initialize", FALSE, r.site)
    /\ UNCHANGED <<capstate, caplist, englist, streamRunning, bufferHeld, devSeq, thr, got, datapath>>

\* AudioEngine::initialize(), second half: m_capture.registerCallback(&m_meteringCallback).
EngInitRegister(t) ==
    /\ At(t, "init_register")
    /\ m_callbackMutex = Free
    /\ m_callbacks' = registerCallback(m_callbacks, Metering)
    /\ RetAt(t, "initialize", TRUE, cl[t].site)
    /\ UNCHANGED <<handles, capstate, m_callbackMutex, englist, device, thr, got, datapath>>

\* ---- WasapiCapture::start(), reached through AudioEngine::start()
\* start() without its first early return: an engine that is capturing is
\* started again.
StartCheckNoEarly(t) ==
    /\ At(t, "idle")
    /\ IF ~m_audioClient \/ ~m_captureClient THEN RetAt(t, "start", FALSE, "noclient")
       ELSE Enter(t, "start", "start_reset")
    /\ UNCHANGED <<handles, capstate, caplist, englist, device, thr, got, datapath>>

\* The two early returns: already capturing, or no client to start.
StartCheck(t) ==
    /\ At(t, "idle")
    /\ IF m_capturing THEN RetAt(t, "start", TRUE, "already")
       ELSE IF ~m_audioClient \/ ~m_captureClient THEN RetAt(t, "start", FALSE, "noclient")
       ELSE Enter(t, "start", "start_reset")
    /\ UNCHANGED <<handles, capstate, caplist, englist, device, thr, got, datapath>>

\* start() without ResetEvent.
StartNoResetEvent(t) ==
    /\ At(t, "start_reset")
    /\ Goto(t, "start_client")
    /\ UNCHANGED <<handles, capstate, caplist, englist, device, thr, got, datapath>>

\* ResetEvent(m_stopEvent); on a null handle the call fails and changes nothing.
StartResetEvent(t) ==
    /\ At(t, "start_reset")
    /\ stopSignaled' = IF m_stopEvent THEN FALSE ELSE stopSignaled
    /\ Goto(t, "start_client")
    /\ UNCHANGED <<handles, capstate, caplist, englist, streamRunning, bufferHeld, devSeq, thr, got, datapath>>

\* m_audioClient->Start(): may fail, and does fail on a stream that is running.
StartClient(t) ==
    /\ At(t, "start_client")
    /\ \E ok \in BOOLEAN :
         /\ ok => ~streamRunning
         /\ IF ok THEN streamRunning' = TRUE /\ Goto(t, "start_store")
                  ELSE streamRunning' = streamRunning /\ RetAt(t, "start", FALSE, "devfail")
    /\ UNCHANGED <<handles, capstate, caplist, englist, stopSignaled, bufferHeld, devSeq, thr, got, datapath>>

\* m_capturing.store(true)
StartStore(t) ==
    /\ At(t, "start_store")
    /\ m_capturing' = TRUE
    /\ Goto(t, "start_create")
    /\ UNCHANGED <<handles, m_captureThread, caplist, englist, device, thr, got, datapath>>

\* A thread object CreateThread can hand out.
FreeThreads == { k \in CapThreads : thr[k].pc = "none" }

\* CreateThread(captureThreadProc, this): the new thread runs from here on,
\* its waitArray holding the m_stopEvent of this moment; or no thread is made.
StartCreateThread(t) ==
    /\ At(t, "start_create")
    /\ \/ /\ FreeThreads # {}
          /\ LET k == IF "k1" \in FreeThreads THEN "k1" ELSE "k2" IN
             /\ thr' = [thr EXCEPT ![k] = [ThreadIdle EXCEPT !.pc = "loop", !.wev = m_stopEvent]]
             /\ cl' = [cl EXCEPT ![t].pc = "start_assign", ![t].h = k]
       \/ /\ thr' = thr
          /\ cl' = [cl EXCEPT ![t].pc = "start_assign", ![t].h = Null]
    /\ UNCHANGED <<handles, capstate, caplist, englist, device, got, datapath>>

\* m_captureThread = <the handle>; a null handle starts the rollback.
StartAssign(t) ==
    /\ At(t, "start_assign")
    /\ m_captureThread' = cl[t].h
    /\ IF cl[t].h = Null THEN Goto(t, "start_rollback")
                         ELSE Ret(t, "start", TRUE)
    /\ UNCHANGED <<handles, m_capturing, caplist, englist, device, thr, got, datapath>>

\* A rollback that leaves the stream running.
StartRollbackNoStop(t) ==
    /\ At(t, "start_rollback")
    /\ Goto(t, "start_unstore")
    /\ UNCHANGED <<handles, capstate, caplist, englist, device, thr, got, datapath>>

\* The rollback of a failed CreateThread: m_audioClient->Stop(), then
\* m_capturing.store(false), return false.
StartRollbackStop(t) ==
    /\ At(t, "start_rollback")
    /\ streamRunning' = FALSE
    /\ Goto(t, "start_unstore")
    /\ UNCHANGED <<handles, capstate, caplist, englist, stopSignaled, bufferHeld, devSeq, thr, got, datapath>>

\* A rollback that returns false with the flag still set.
StartRollbackKeepsFlag(t) ==
    /\ At(t, "start_unstore")
    /\ RetAt(t, "start", FALSE, "nothread")
    /\ UNCHANGED <<handles, capstate, caplist, englist, device, thr, got, datapath>>

StartRollbackFlag(t) ==
    /\ At(t, "start_unstore")
    /\ m_capturing' = FALSE
    /\ RetAt(t, "start", FALSE, "nothread")
    /\ UNCHANGED <<handles, m_captureThread, caplist, englist, device, thr, got, datapath>>

\* ---- WasapiCapture::stop(): called as AudioEngine::stop(), as the first
\* statement of AudioEngine::shutdown() and as the first statement of
\* WasapiCapture::shutdown(); op tells which, and so where it returns to.
CallStop(t) ==
    /\ At(t, "idle")
    /\ Enter(t, "stop", "stop_check")
    /\ UNCHANGED <<handles, capstate, caplist, englist, device, thr, got, datapath>>

CallShutdown(t) ==
    /\ At(t, "idle")
    /\ Enter(t, "shutdown", "stop_check")
    /\ UNCHANGED <<handles, capstate, caplist, englist, device, thr, got, datapath>>

\* Where stop() returns to.
AfterStop(t, stopped) ==
    IF cl[t].op = "stop" THEN Ret(t, "stop", stopped)
    ELSE cl' = [cl EXCEPT ![t].h = Null,
                          ![t].pc = IF cl[t].op = "shutdown" THEN "sd_unregister"
                                                             ELSE "sd_release"]

\* stop() without its early return.
StopCheckNoEarly(t) ==
    /\ At(t, "stop_check")
    /\ Goto(t, "stop_store")
    /\ UNCHANGED <<handles, capstate, caplist, englist, device, thr, got, datapath>>

\* if (!m_capturing.load()) return;
StopCheck(t) ==
    /\ At(t, "stop_check")
    /\ IF m_capturing THEN Goto(t, "stop_store") ELSE AfterStop(t, FALSE)
    /\ UNCHANGED <<handles, capstate, caplist, englist, device, thr, got, datapath>>

\* m_capturing.store(false)
StopStore(t) ==
    /\ At(t, "stop_store")
    /\ m_capturing' = FALSE
    /\ Goto(t, "stop_event")
    /\ UNCHANGED <<handles, m_captureThread, caplist, englist, device, thr, got, datapath>>

\* if (m_stopEvent) SetEvent(m_stopEvent);
StopSetEvent(t) ==
    /\ At(t, "stop_event")
    /\ stopSignaled' = IF m_stopEvent THEN TRUE ELSE stopSignaled
    /\ Goto(t, "stop_client")
    /\ UNCHANGED <<handles, capstate, caplist, englist, streamRunning, bufferHeld, devSeq, thr, got, datapath>>

\* if (m_audioClient) m_audioClient->Stop();
StopClient(t) ==
    /\ At(t, "stop_client")
    /\ streamRunning' = IF m_audioClient THEN FALSE ELSE streamRunning
    /\ Goto(t, "stop_wait")
    /\ UNCHANGED <<handles, capstate, caplist, englist, stopSignaled, bufferHeld, devSeq, thr, got, datapath>>

\* A wait that does not wait (a zero timeout in place of INFINITE).
JoinedNoWait(h) == TRUE

\* WaitForSingleObject(m_captureThread, INFINITE) has returned when the thread
\* behind the handle has exited.
Joined(h) == thr[h].pc = "exited"

\* A handle that a stop() has closed: its thread object is gone.
Closed(h) == thr[h].pc = "none"

\* if (m_captureThread) WaitForSingleObject(m_captureThread, INFINITE): the
\* handle is read and the wait begins on it; with no handle stop() returns.
StopWait(t) ==
    /\ At(t, "stop_wait")
    /\ IF m_captureThread # Null
         THEN cl' = [cl EXCEPT ![t].pc = "stop_join", ![t].h = m_captureThread]
         ELSE AfterStop(t, TRUE)
    /\ UNCHANGED <<handles, capstate, caplist, englist, device, thr, got, datapath>>

\* The wait returns when the thread behind the handle it was given has
\* exited; then CloseHandle(m_captureThread); m_captureThread = nullptr, on
\* the handle the field holds by now.  A wait on a handle that another stop()
\* has closed meanwhile is undefined: it returns here, or never (StopJoinHang).
StopJoin(t) ==
    /\ At(t, "stop_join")
    /\ Joined(cl[t].h) \/ Closed(cl[t].h)
    /\ thr' = IF m_captureThread = Null THEN thr
              ELSE [thr EXCEPT ![m_captureThread] = IF @.pc = "exited" THEN ThreadIdle ELSE @]
    /\ m_captureThread' = Null
    /\ AfterStop(t, TRUE)
    /\ UNCHANGED <<handles, m_capturing, caplist, englist, device, got, datapath>>

StopJoinHang(t) ==
    /\ At(t, "stop_join")
    /\ Closed(cl[t].h)
    /\ Goto(t, "hung")
    /\ UNCHANGED <<handles, capstate, caplist, englist, device, thr, got, datapath>>

\* ---- AudioEngine::shutdown() after its stop()
\* m_capture.unregisterCallback(&m_meteringCallback)
ShutdownUnregister(t) ==
    /\ At(t, "sd_unregister")
    /\ m_callbackMutex = Free
    /\ m_callbacks' = unregisterCallback(m_callbacks, Metering)
    /\ Goto(t, "sd_clear")
    /\ UNCHANGED <<handles, capstate, m_callbackMutex, englist, device, thr, got, datapath>>

\* shutdown() without m_callbacks.clear().
ShutdownNoClear(t) ==
    /\ At(t, "sd_clear")
    /\ cl' = [cl EXCEPT ![t].op = "cshutdown", ![t].pc = "stop_check"]
    /\ UNCHANGED <<handles, capstate, caplist, englist, device, thr, got, datapath>>

\* shutdown() with the lock_guard outside the braces: the facade's lock is
\* still held when m_capture.shutdown() is entered.
ShutdownClearKeepsLock(t) ==
    /\ At(t, "sd_clear")
    /\ eng_callbackMutex = Free
    /\ eng_callbackMutex' = t
    /\ eng_callbacks' = <<>>
    /\ cl' = [cl EXCEPT ![t].op = "cshutdown", ![t].pc = "stop_check"]
    /\ UNCHANGED <<handles, capstate, caplist, device, thr, got, datapath>>

\* { lock_guard; m_callbacks.clear(); } and on into m_capture.shutdown()
ShutdownClear(t) ==
    /\ At(t, "sd_clear")
    /\ eng_callbackMutex = Free
    /\ eng_callbacks' = <<>>
    /\ cl' = [cl EXCEPT ![t].op = "cshutdown", ![t].pc = "stop_check"]
    /\ UNCHANGED <<handles, capstate, caplist, eng_callbackMutex, device, thr, got, datapath>>

\* WasapiCapture::shutdown() after its stop(): releaseAudioClient(),
\* releaseCom(), then the stop event is closed and nulled.
ShutdownRelease(t) ==
    /\ At(t, "sd_release")
    /\ SetFields([releaseCom(releaseAudioClient(Fields)) EXCEPT !.ev = FALSE])
    /\ stopSignaled' = FALSE
    /\ streamRunning' = FALSE
    /\ Ret(t, "shutdown", TRUE)
    /\ UNCHANGED <<capstate, caplist, englist, bufferHeld, devSeq, thr, got, datapath>>

\* ---- AudioEngine::registerCallback / unregisterCallback, from any thread of
\* the application: the whole body runs under m_callbackMutex.
\* registerCallback passing the observer on to the capture engine's list.
EngRegisterRaw(cb) ==
    /\ m_callbackMutex = Free
    /\ Len(m_callbacks) < MaxCallbacks
    /\ m_callbacks' = registerCallback(m_callbacks, cb)
    /\ UNCHANGED <<handles, capstate, m_callbackMutex, englist, device, thr, cl, got, datapath>>

EngRegister(cb) ==
    /\ eng_callbackMutex = Free
    /\ Len(eng_callbacks) < MaxCallbacks
    /\ eng_callbacks' = registerCallback(eng_callbacks, cb)
    /\ UNCHANGED <<handles, capstate, caplist, eng_callbackMutex, device, thr, cl, got, datapath>>

\* unregisterCallback without the lock_guard.
EngUnregisterNoLock(cb) ==
    /\ eng_callbacks' = unregisterCallback(eng_callbacks, cb)
    /\ UNCHANGED <<handles, capstate, caplist, eng_callbackMutex, device, thr, cl, got, datapath>>

EngUnregister(cb) ==
    /\ eng_callbackMutex = Free
    /\ eng_callbacks' = unregisterCallback(eng_callbacks, cb)
    /\ UNCHANGED <<handles, capstate, caplist, eng_callbackMutex, device, thr, cl, got, datapath>>

\* ------------------------------------------- WasapiCapture::captureThread
On(k, pc) == thr[k].pc = pc
Step(k, pc) == thr' = [thr EXCEPT ![k].pc = pc]

\* A stop() is past m_capturing.store(false) and SetEvent(m_stopEvent).
PastSignal == \E t \in Callers : cl[t].pc \in {"stop_client", "stop_wait", "stop_join"}

\* The count of late GetBuffer calls after one more GetBuffer.
LateCount(k) ==
    IF ~PastSignal THEN thr[k].late
    ELSE IF thr[k].late < 2 THEN thr[k].late + 1 ELSE 2

\* A loop that never tests the flag: while (true).
LoopTestForever(k) ==
    /\ On(k, "loop")
    /\ Step(k, "wait")
    /\ UNCHANGED <<handles, capstate, caplist, englist, device, cl, got, datapath>>

\* while (m_capturing.load())
LoopTest(k) ==
    /\ On(k, "loop")
    /\ Step(k, IF m_capturing THEN "wait" ELSE "exited")
    /\ UNCHANGED <<handles, capstate, caplist, englist, device, cl, got, datapath>>

\* WaitForMultipleObjects(1, waitArray, FALSE, 100): WAIT_OBJECT_0 when the
\* event in waitArray is signaled, and otherwise a timeout after 100 ms (or
\* WAIT_FAILED at once, for a null handle); both fall through to GetBuffer.
WaitStop(k) ==
    /\ On(k, "wait")
    /\ Step(k, IF thr[k].wev /\ stopSignaled THEN "exited" ELSE "get")
    /\ UNCHANGED <<handles, capstate, caplist, englist, device, cl, got, datapath>>

\* A failed GetBuffer that leaves the loop: break in place of continue.
GetBufferFailedBreak(k) ==
    /\ On(k, "get")
    /\ thr' = [thr EXCEPT ![k].pc = "exited", ![k].failed = TRUE, ![k].late = LateCount(k)]
    /\ UNCHANGED <<handles, capstate, caplist, englist, device, cl, got, datapath>>

\* m_captureClient->GetBuffer fails: continue.
GetBufferFailed(k) ==
    /\ On(k, "get")
    /\ thr' = [thr EXCEPT ![k].pc = "loop", ![k].failed = TRUE, ![k].late = LateCount(k)]
    /\ UNCHANGED <<handles, capstate, caplist, englist, device, cl, got, datapath>>

\* GetBuffer succeeds with numFramesAvailable == 0.
GetBufferEmpty(k) ==
    /\ On(k, "get")
    /\ bufferHeld' = TRUE
    /\ thr' = [thr EXCEPT ![k].pc = "release0", ![k].late = LateCount(k)]
    /\ UNCHANGED <<handles, capstate, caplist, englist, stopSignaled, streamRunning, devSeq, cl, got, datapath>>

\* GetBuffer succeeds with a packet of frames, one of packets: the next one
\* of the stream.
GetBufferData(k, packets) ==
    /\ On(k, "get")
    /\ devSeq < MaxBuffers
    /\ bufferHeld' = TRUE
    /\ devSeq' = devSeq + 1
    /\ \E packet \in packets : pData' = packet
    /\ thr' = [thr EXCEPT ![k].pc = "process", ![k].buf = devSeq + 1, ![k].late = LateCount(k)]
    /\ UNCHANGED <<handles, capstate, caplist, englist, stopSignaled, streamRunning, cl, got,
                   m_floatBuffer, snapshot>>

\* The empty packet is not given back: continue without ReleaseBuffer(0).
ReleaseEmptyMissing(k) ==
    /\ On(k, "release0")
    /\ Step(k, "loop")
    /\ UNCHANGED <<handles, capstate, caplist, englist, device, cl, got, datapath>>

\* m_captureClient->ReleaseBuffer(0); continue;
ReleaseEmpty(k) ==
    /\ On(k, "release0")
    /\ bufferHeld' = FALSE
    /\ Step(k, "loop")
    /\ UNCHANGED <<handles, capstate, caplist, englist, stopSignaled, streamRunning, devSeq, cl, got, datapath>>

\* processAudioData up to the lock: the packet is converted into
\* m_floatBuffer, then std::lock_guard takes m_callbackMutex.
ProcessLock(k) ==
    /\ On(k, "process")
    /\ m_callbackMutex = Free
    /\ m_callbackMutex' = k
    /\ \E beyond \in BeyondSamples(m_waveFormat) :
         m_floatBuffer' = processAudioData(m_waveFormat, m_format, m_floatBuffer, pData, beyond)
    /\ thr' = [thr EXCEPT ![k].pc = "fan", ![k].i = 1]
    /\ UNCHANGED <<handles, capstate, m_callbacks, englist, device, cl, got, pData, snapshot>>

\* for (callback : m_callbacks) callback->onAudioData(...): the metering
\* callback builds the snapshot and enters forwardMeterData, which takes the
\* engine's m_callbackMutex.
FanOutNext(k) ==
    /\ On(k, "fan")
    /\ thr[k].i <= Len(m_callbacks)
    /\ eng_callbackMutex = Free
    /\ eng_callbackMutex' = k
    /\ snapshot' = onAudioData(snapshot, m_floatBuffer, pData.numFrames, m_format)
    /\ thr' = [thr EXCEPT ![k].pc = "forward", ![k].j = 1]
    /\ UNCHANGED <<handles, capstate, caplist, eng_callbacks, device, cl, got, pData, m_floatBuffer>>

\* The loop over m_callbacks is over: the lock_guard unlocks.
FanOutDone(k) ==
    /\ On(k, "fan")
    /\ thr[k].i > Len(m_callbacks)
    /\ m_callbackMutex' = Free
    /\ thr' = [thr EXCEPT ![k].pc = "release", ![k].i = 0]
    /\ UNCHANGED <<handles, capstate, m_callbacks, englist, device, cl, got, datapath>>

\* forwardMeterData: callback->onMeterData(snapshot) is entered.
ForwardNext(k) ==
    /\ On(k, "forward")
    /\ thr[k].j <= Len(eng_callbacks)
    /\ got' = [got EXCEPT ![eng_callbacks[thr[k].j]] = thr[k].buf]
    /\ thr' = [thr EXCEPT ![k].pc = "callback", ![k].cb = eng_callbacks[thr[k].j]]
    /\ UNCHANGED <<handles, capstate, caplist, englist, device, cl, datapath>>

\* The loop over the engine's list steps over the next observer.
CallbackReturnSkip(k) ==
    /\ On(k, "callback")
    /\ thr' = [thr EXCEPT ![k].pc = "forward", ![k].j = thr[k].j + 2, ![k].cb = NullCb]
    /\ UNCHANGED <<handles, capstate, caplist, englist, device, cl, got, datapath>>

\* The observer's onMeterData returns.
CallbackReturn(k) ==
    /\ On(k, "callback")
    /\ thr' = [thr EXCEPT ![k].pc = "forward", ![k].j = thr[k].j + 1, ![k].cb = NullCb]
    /\ UNCHANGED <<handles, capstate, caplist, englist, device, cl, got, datapath>>

\* The loop over the engine's m_callbacks is over: forwardMeterData unlocks
\* and onAudioData returns to the fan-out of processAudioData.
ForwardDone(k) ==
    /\ On(k, "forward")
    /\ thr[k].j > Len(eng_callbacks)
    /\ eng_callbackMutex' = Free
    /\ thr' = [thr EXCEPT ![k].pc = "fan", ![k].i = thr[k].i + 1, ![k].j = 0]
    /\ UNCHANGED <<handles, capstate, caplist, eng_callbacks, device, cl, got, datapath>>

\* m_captureClient->ReleaseBuffer(numFramesAvailable)
ReleaseData(k) ==
    /\ On(k, "release")
    /\ bufferHeld' = FALSE
    /\ pData' = NoPacket
    /\ thr' = [thr EXCEPT ![k].pc = "loop", ![k].buf = 0]
    /\ UNCHANGED <<handles, capstate, caplist, englist, stopSignaled, streamRunning, devSeq, cl, got,
                   m_floatBuffer, snapshot>>

\* ------------------------------------------------------------ specification
\* A caller makes one of the four lifecycle calls of the facade.
CallerEnter(t, failures, formats) ==
    \/ EngInitialize(t, failures, formats)
    \/ StartCheck(t)
    \/ CallStop(t) \/ CallShutdown(t)

\* A caller goes one step further inside the call it is making.
CallerBody(t) ==
    \/ EngInitRegister(t)
    \/ StartResetEvent(t) \/ StartClient(t) \/ StartStore(t)
    \/ StartCreateThread(t) \/ StartAssign(t) \/ StartRollbackStop(t) \/ StartRollbackFlag(t)
    \/ StopCheck(t) \/ StopStore(t) \/ StopSetEvent(t) \/ StopClient(t) \/ StopWait(t)
    \/ StopJoin(t)
    \/ ShutdownUnregister(t) \/ ShutdownClear(t) \/ ShutdownRelease(t)

CallerStep(t, failures, formats) ==
    \/ CallerEnter(t, failures, formats)
    \/ CallerBody(t)
    \/ Return(t)

\* The capture loop and the fan-out over WasapiCapture's own list.
PollStep(k) ==
    \/ LoopTest(k) \/ WaitStop(k)
    \/ GetBufferFailed(k) \/ GetBufferEmpty(k) \/ GetBufferData(k, QuietPackets)
    \/ ReleaseEmpty(k) \/ ProcessLock(k)
    \/ FanOutNext(k) \/ FanOutDone(k) \/ ForwardDone(k)
    \/ ReleaseData(k)

\* The calls into external observers.
ObserverStep(k) == ForwardNext(k) \/ CallbackReturn(k)

CaptureStep(k) == PollStep(k) \/ ObserverStep(k)

\* Registration calls with the pointers cbs.
RegistrarStep(cbs) ==
    \/ \E cb \in cbs : EngRegister(cb)
    \/ \E cb \in cbs : EngUnregister(cb)

\* The capture session.  One thread makes the lifecycle calls, registrations
\* come from any thread, and the device negotiates stereo float; of the
\* failures of initialize() the session keeps the first (nothing is acquired)
\* and the last (everything but the stop event is).
SessionFailures == {"none", "CoInitializeEx", "CreateEvent"}
SessionFormats == { WaveFormat(WAVE_FORMAT_IEEE_FLOAT, 32, 2) }

Next ==
    \/ CallerStep("c1", SessionFailures, SessionFormats)
    \/ \E k \in CapThreads : CaptureStep(k)
    \/ RegistrarStep(Observers \cup {NullCb})

Spec == Init /\ [][Next]_vars

\* Initialization in full: every failing call and every device format, with
\* no external observer registered.
NextInit ==
    \/ CallerStep("c1", InitFailures, DeviceFormats)
    \/ \E k \in CapThreads : PollStep(k)

InitSpec == Init /\ [][NextInit]_vars

\* The session under the scheduling the code relies on: every capture thread
\* keeps running (observers return, the bounded wait times out), and a caller
\* inside stop() keeps running.
StopStep(t) ==
    \/ StopCheck(t) \/ StopStore(t) \/ StopSetEvent(t) \/ StopClient(t) \/ StopWait(t)
    \/ StopJoin(t)

\* One external observer is enough to keep the thread inside callbacks.
NextFair ==
    \/ CallerStep("c1", SessionFailures, SessionFormats)
    \/ \E k \in CapThreads : CaptureStep(k)
    \/ RegistrarStep({"A"})

FairSpec ==
    /\ Init /\ [][NextFair]_vars
    /\ WF_vars(StopStep("c1"))
    /\ \A k \in CapThreads : WF_vars(CaptureStep(k))

\* The logged run: one thread makes up to MaxCalls lifecycle calls, each
\* written to its log on return; every call of initialize() succeeds, start()
\* may fail in the device or in CreateThread, and observer A is registered from
\* outside at any moment (and removed only by shutdown()).
LifeEnter(t) ==
    /\ Len(cl[t].log) < MaxCalls
    /\ CallerEnter(t, {"none"}, SessionFormats)

NextLife ==
    \/ LifeEnter("c1")
    \/ CallerBody("c1")
    \/ ReturnLogged("c1")
    \/ \E k \in CapThreads : CaptureStep(k)
    \/ EngRegister("A")

LifeSpec == Init /\ [][NextLife]_vars

\* Two threads of the application share the engine: after initialize() each
\* of them calls start() and stop() whenever it likes, with no lock between
\* them (start() and stop() take none); the device stays silent.
RaceEnter(t) == StartCheck(t) \/ CallStop(t)

\* The capture loop on a device that has no packet to give.
IdlePollStep(k) == LoopTest(k) \/ WaitStop(k) \/ GetBufferEmpty(k) \/ ReleaseEmpty(k)

RaceBody(t) ==
    \/ StartResetEvent(t) \/ StartClient(t) \/ StartStore(t)
    \/ StartCreateThread(t) \/ StartAssign(t) \/ StartRollbackStop(t) \/ StartRollbackFlag(t)
    \/ StopCheck(t) \/ StopStore(t) \/ StopSetEvent(t) \/ StopClient(t) \/ StopWait(t)
    \/ StopJoin(t) \/ StopJoinHang(t)

NextRace ==
    \/ EngInitialize("c1", {"none"}, SessionFormats)
    \/ EngInitRegister("c1")
    \/ \E t \in Callers : RaceEnter(t) \/ RaceBody(t) \/ Return(t)
    \/ \E k \in CapThreads : IdlePollStep(k)

RaceSpec == Init /\ [][NextRace]_vars

\* The logged run with initialize() failing: one thread makes up to MaxCalls
\* lifecycle calls, each written to its log, with any system call of
\* initialize() failing and any mix format of the device; the device has no
\* packet to give.
FailEnter(t) ==
    /\ Len(cl[t].log) < MaxCalls
    /\ CallerEnter(t, InitFailures, DeviceFormats)

NextFail ==
    \/ FailEnter("c1")
    \/ CallerBody("c1")
    \/ ReturnLogged("c1")
    \/ \E k \in CapThreads : IdlePollStep(k)

FailSpec == Init /\ [][NextFail]_vars

\* The data runs.  The engine has been initialized with one of DataFormats,
\* observer A is registered and start() has returned true: the capture thread
\* is at the top of its loop.  The device then hands out up to MaxBuffers
\* packets with any samples and either value of the silence flag.
DataInit ==
    /\ m_comInitialized = TRUE
    /\ m_deviceEnumerator = TRUE
    /\ m_device = TRUE
    /\ m_audioClient = TRUE
    /\ m_captureClient = TRUE
    /\ m_waveFormat \in DataFormats
    /\ m_format = [channelCount |-> m_waveFormat.nChannels]
    /\ m_stopEvent = TRUE
    /\ m_capturing = TRUE
    /\ m_captureThread = "k1"
    /\ m_callbacks = <<Metering>>
    /\ m_callbackMutex = Free
    /\ eng_callbacks = <<"A">>
    /\ eng_callbackMutex = Free
    /\ stopSignaled = FALSE
    /\ streamRunning = TRUE
    /\ bufferHeld = FALSE
    /\ devSeq = 0
    /\ comOwned = TRUE
    /\ comUnbalanced = FALSE
    /\ thr = [k \in CapThreads |->
                IF k = "k1" THEN [ThreadIdle EXCEPT !.pc = "loop", !.wev = TRUE] ELSE ThreadIdle]
    /\ cl = [t \in Callers |-> CallerIdle]
    /\ got = [o \in Observers |-> 0]
    /\ pData = NoPacket
    /\ m_floatBuffer = <<>>
    /\ snapshot = NoSnapshot

DataPollStep(k) ==
    \/ LoopTest(k) \/ WaitStop(k)
    \/ GetBufferData(k, SamplePackets(m_waveFormat))
    \/ ProcessLock(k)
    \/ FanOutNext(k) \/ FanOutDone(k)
    \/ ForwardNext(k) \/ CallbackReturn(k) \/ ForwardDone(k)
    \/ ReleaseData(k)

NextData == \E k \in CapThreads : DataPollStep(k)

DataSpec == DataInit /\ [][NextData]_vars

\* The meters called on their own, as the repository's unit test does
\* (meter.process(buffer, 3, format)): a test thread fills a buffer of up to
\* MaxSamples floats, picks mono or stereo and a frame count the buffer has
\* room for, zero included, and gets the two levels back.  The buffer is kept
\* in m_floatBuffer, the frame count in pData, the levels in snapshot.
MeterProcess(t) ==
    /\ At(t, "idle")
    /\ \E channels \in {1, 2}, len \in 0..MaxSamples :
         \E buffer \in [1..len -> FloatSamples], frameCount \in 0..(len \div channels) :
            LET format == [m_format EXCEPT !.channelCount = channels] IN
            /\ m_format' = format
            /\ m_floatBuffer' = buffer
            /\ pData' = Packet(FALSE, frameCount, <<>>)
            /\ snapshot' = MeterSnapshot(PeakMeter(buffer, frameCount, format),
                                         RmsMeter(buffer, frameCount, format))
    /\ RetAt(t, "process", TRUE, "end")
    /\ UNCHANGED <<m_comInitialized, m_deviceEnumerator, m_device, m_audioClient,
                   m_captureClient, m_waveFormat, m_stopEvent, comOwned, comUnbalanced,
                   capstate, caplist, englist, device, thr, got>>

NextMeter == MeterProcess("c1") \/ Return("c1")

MeterSpec == Init /\ [][NextMeter]_vars

\* An observer that calls the facade from inside its onMeterData: the call
\* runs on the capture thread, inside forwardMeterData's lock_guard.
\* AudioEngine::m_callbackMutex is a std::mutex, and lock() on a std::mutex
\* by the thread that owns it is undefined: the call never returns (blocked),
\* or lock() throws std::system_error, which nothing on the capture thread
\* catches (terminated), or lock() returns and the call runs to its end, where
\* its own lock_guard unlocks the mutex under the traversal.  If the mutex is
\* free by then, the call takes and gives it back as from any thread.
ReenterOutcomes == {"blocks", "throws", "returns"}

ReenterCall(k, list) ==
    /\ On(k, "callback")
    /\ eng_callbackMutex \in {k, Free}
    /\ \E outcome \in ReenterOutcomes :
         /\ eng_callbackMutex = Free => outcome = "returns"
         /\ IF outcome = "returns"
              THEN /\ eng_callbacks' = list
                   /\ eng_callbackMutex' = Free
                   /\ thr' = thr
              ELSE /\ UNCHANGED englist
                   /\ Step(k, IF outcome = "blocks" THEN "blocked" ELSE "terminated")
    /\ UNCHANGED <<handles, capstate, caplist, device, cl, got, datapath>>

\* engine.registerCallback(cb) from inside onMeterData
ReenterRegister(k, cb) ==
    /\ Len(eng_callbacks) < MaxCallbacks
    /\ ReenterCall(k, registerCallback(eng_callbacks, cb))

\* engine.unregisterCallback(cb) from inside onMeterData
ReenterUnregister(k, cb) == ReenterCall(k, unregisterCallback(eng_callbacks, cb))

\* A capturing session whose observers register and unregister observers
\* from inside their callbacks, while the caller thread may call stop().
NextReentry ==
    \/ \E k \in CapThreads : CaptureStep(k)
    \/ \E k \in CapThreads, cb \in Observers : ReenterRegister(k, cb) \/ ReenterUnregister(k, cb)
    \/ CallStop("c1") \/ StopStep("c1") \/ Return("c1")

ReentrySpec == DataInit /\ [][NextReentry]_vars

\* The GUI entry point, WinMain: initialize(); if that succeeded,
\* registerCallback(&callback) and start(); window.run() in every case; then
\* stop(), unregisterCallback(&callback), shutdown().  Each call is written to
\* the log of the main thread when it returns, and the last entry of the log
\* tells where WinMain is.  The GuiCallback is observer A.
GuiCallback == "A"
LastCall(t) == IF cl[t].log = <<>> THEN Call("none", FALSE, "none")
               ELSE cl[t].log[Len(cl[t].log)]

\* engine.registerCallback(&callback) under if (audioAvailable)
GuiRegister(t) ==
    /\ At(t, "idle")
    /\ LastCall(t).op = "initialize" /\ LastCall(t).res
    /\ eng_callbackMutex = Free
    /\ eng_callbacks' = registerCallback(eng_callbacks, GuiCallback)
    /\ RetAt(t, "registerCallback", TRUE, "end")
    /\ UNCHANGED <<handles, capstate, caplist, eng_callbackMutex, device, thr, got, datapath>>

\* window.run() is entered: after a failed initialize(), or after start()
\* whatever it returned.
GuiRun(t) ==
    /\ At(t, "idle")
    /\ \/ LastCall(t).op = "initialize" /\ ~LastCall(t).res
       \/ LastCall(t).op = "start"
    /\ Enter(t, "run", "running")
    /\ UNCHANGED <<handles, capstate, caplist, englist, device, thr, got, datapath>>

\* The user closes the window: window.run() returns.
GuiClose(t) ==
    /\ At(t, "running")
    /\ Ret(t, "run", TRUE)
    /\ UNCHANGED <<handles, capstate, caplist, englist, device, thr, got, datapath>>

\* engine.unregisterCallback(&callback)
GuiUnregister(t) ==
    /\ At(t, "idle")
    /\ LastCall(t).op = "stop"
    /\ eng_callbackMutex = Free
    /\ eng_callbacks' = unregisterCallback(eng_callbacks, GuiCallback)
    /\ RetAt(t, "unregisterCallback", TRUE, "end")
    /\ UNCHANGED <<handles, capstate, caplist, eng_callbackMutex, device, thr, got, datapath>>

\* The next statement of WinMain.
GuiMain(t) ==
    \/ cl[t].log = <<>> /\ EngInitialize(t, InitFailures, DeviceFormats)
    \/ GuiRegister(t)
    \/ LastCall(t).op = "registerCallback" /\ StartCheck(t)
    \/ GuiRun(t) \/ GuiClose(t)
    \/ LastCall(t).op = "run" /\ CallStop(t)
    \/ GuiUnregister(t)
    \/ LastCall(t).op = "unregisterCallback" /\ CallShutdown(t)

NextGui ==
    \/ GuiMain("c1")
    \/ CallerBody("c1")
    \/ ReturnLogged("c1")
    \/ \E k \in CapThreads : CaptureStep(k)

GuiSpec == Init /\ [][NextGui]_vars

\* One stop() racing with one start(): the main thread calls initialize(),
\* start() and then stop(), and a second thread calls start() once, at any
\* moment.  start() and stop() take no lock.  A caller inside a call keeps
\* running and so does every capture thread (its wait is bounded by 100 ms).
StartStep(t) ==
    \/ StartResetEvent(t) \/ StartClient(t) \/ StartStore(t)
    \/ StartCreateThread(t) \/ StartAssign(t) \/ StartRollbackStop(t) \/ StartRollbackFlag(t)

StopRaceEnter ==
    \/ cl["c1"].log = <<>> /\ EngInitialize("c1", {"none"}, SessionFormats)
    \/ LastCall("c1").op = "initialize" /\ StartCheck("c1")
    \/ LastCall("c1").op = "start" /\ CallStop("c1")
    \/ cl["c2"].log = <<>> /\ StartCheck("c2")

NextStopRace ==
    \/ StopRaceEnter
    \/ EngInitRegister("c1")
    \/ \E t \in Callers : StartStep(t) \/ StopStep(t) \/ ReturnLogged(t)
    \/ \E k \in CapThreads : IdlePollStep(k)

StopRaceSpec ==
    /\ Init /\ [][NextStopRace]_vars
    /\ \A t \in Callers : WF_vars(StartStep(t)) /\ WF_vars(StopStep(t))
    /\ \A k \in CapThreads : WF_vars(IdlePollStep(k))

\* ------------------------------------------------------------------ claims
InCallback(k) == On(k, "callback")
InFanOut(k) == thr[k].pc \in {"fan", "forward", "callback"}
InForward(k) == thr[k].pc \in {"forward", "callback"}
\* stop() past m_capturing.store(false) and not yet back from the join
Joining(t) == cl[t].pc \in {"stop_event", "stop_client", "stop_wait", "stop_join"}
\* stop() past its early return
Stopping(t) == cl[t].pc = "stop_store" \/ Joining(t)
Returned(t, op) == cl[t].pc = "ret" /\ cl[t].op = op

\* C1: when stop() returns no capture thread is alive and no observer callback
\* is executing, and it stays so until a start() sets the capturing flag
\* again: outside the join of stop(), a clear capturing flag means no thread.
C1_StopJoinsThread ==
    /\ Returned("c1", "stop") => \A k \in CapThreads : ~Alive(k) /\ ~InCallback(k)
    /\ (~m_capturing /\ ~Joining("c1")) => \A k \in CapThreads : ~Alive(k)

\* A stop() that stopped a thread which had delivered packets has returned.
C1_Witness ==
    /\ Returned("c1", "stop") /\ cl["c1"].res
    /\ got["A"] > 0
    /\ devSeq = MaxBuffers

\* C3: snapshots reach every observer in packet order; while packet N is
\* fanned out nobody holds a later packet, every observer earlier in the list
\* has received N, and packet N is the newest the device has handed out.
C3_OrderStep == \A o \in Observers : got'[o] >= got[o]

C3_OrderState ==
    \A k \in CapThreads : InForward(k) =>
        /\ thr[k].buf = devSeq
        /\ \A o \in Observers : got[o] <= thr[k].buf
        /\ \A p \in 1..Len(eng_callbacks) :
              p < thr[k].j => got[eng_callbacks[p]] = thr[k].buf
        /\ InCallback(k) => got[thr[k].cb] = thr[k].buf

C3_FanOutOrder == []C3_OrderState /\ [][C3_OrderStep]_vars

\* The second packet is inside observer B's callback, after A's.
C3_Witness ==
    \E k \in CapThreads :
        /\ InCallback(k) /\ thr[k].cb = "B" /\ thr[k].j = 2
        /\ eng_callbacks = <<"A", "B">>
        /\ thr[k].buf = 2 /\ got["A"] = 2

\* C4: neither registration list changes while a capture thread traverses it,
\* the traversing thread holds the list's mutex for the whole traversal, and
\* at most one observer callback executes at a time.
C4_ListsStable ==
    /\ (\E k \in CapThreads : InFanOut(k)) => m_callbacks' = m_callbacks
    /\ (\E k \in CapThreads : InForward(k)) => eng_callbacks' = eng_callbacks

C4_LocksHeld ==
    /\ \A k \in CapThreads : InFanOut(k) => m_callbackMutex = k
    /\ \A k \in CapThreads : InForward(k) => eng_callbackMutex = k
    /\ Cardinality({k \in CapThreads : InCallback(k)}) <= 1

C4_FanOutExclusive == []C4_LocksHeld /\ [][C4_ListsStable]_vars

\* A callback executes during the second round of a fan-out over a full list.
C4_Witness ==
    \E k \in CapThreads :
        /\ InCallback(k) /\ thr[k].i = 2
        /\ Len(eng_callbacks) = MaxCallbacks
        /\ m_callbackMutex = k /\ eng_callbackMutex = k

\* C5: unregisterCallback(o) leaves no registration of o behind, and an
\* observer is inside onMeterData only while it is registered: once the call
\* has returned, o is not invoked again until it is registered again.
C5_Removed == \A o \in Observers : EngUnregister(o) => o \notin Range(eng_callbacks')

C5_InvokedRegistered ==
    \A k \in CapThreads : InCallback(k) => thr[k].cb \in Range(eng_callbacks)

C5_UnregisterSafe == []C5_InvokedRegistered /\ [][C5_Removed]_vars

\* A, which received the first packet, is no longer registered while the
\* second packet is delivered to B.
C5_Witness ==
    \E k \in CapThreads :
        /\ InCallback(k) /\ thr[k].cb = "B" /\ thr[k].buf = 2
        /\ got["A"] = 1
        /\ "A" \notin Range(eng_callbacks)

\* C6: a packet is outstanding exactly from a successful GetBuffer to its
\* ReleaseBuffer: none at the next GetBuffer or after a failed one, one during
\* the whole fan-out and at both releases, and the release of a data packet
\* comes after the fan-out has given the lock back.
Holding(k) == thr[k].pc \in {"release0", "process", "fan", "forward", "callback", "release"}

C6_AcquireRelease ==
    /\ bufferHeld <=> \E k \in CapThreads : Holding(k)
    /\ \A k \in CapThreads : On(k, "release") => (m_callbackMutex # k /\ thr[k].buf > 0)
    /\ \A k \in CapThreads : On(k, "release0") => thr[k].buf = 0

\* An empty packet is about to be released, after data packets were.
C6_Witness ==
    \E k \in CapThreads : On(k, "release0") /\ bufferHeld /\ devSeq > 0

\* C7: a failed GetBuffer ends the cycle and nothing else: the thread is back
\* at the loop test, no observer was called, no packet is outstanding and the
\* capturing flag is as it was; a thread that has seen a failure is alive as
\* long as the engine is capturing.
C7_FailureStep ==
    \A k \in CapThreads : GetBufferFailed(k) =>
        /\ thr'[k].pc = "loop"
        /\ m_capturing' = m_capturing
        /\ got' = got
        /\ ~bufferHeld'
        /\ cl' = cl

C7_FailureState ==
    \A k \in CapThreads : (thr[k].failed /\ m_capturing) => Alive(k)

C7_FailureAbsorbed == []C7_FailureState /\ [][C7_FailureStep]_vars

\* After a failed GetBuffer the same thread delivers a packet.
C7_Witness ==
    \E k \in CapThreads : thr[k].failed /\ InCallback(k) /\ m_capturing

\* C2: a stop() that has passed its early return gets back from the join.
C2_StopReturns == Stopping("c1") ~> ~Stopping("c1")

\* stop() waits for a thread that is inside an observer's callback.
C2_Witness ==
    \E k \in CapThreads : cl["c1"].pc = "stop_wait" /\ InCallback(k)

\* C8: when initialize() returns false nothing it acquired is left: COM is
\* uninitialized and every handle is null.
C8_NoPartialState ==
    (Returned("c1", "initialize") /\ ~cl["c1"].res) =>
        /\ ~m_comInitialized
        /\ ~m_deviceEnumerator /\ ~m_device /\ ~m_audioClient /\ ~m_captureClient
        /\ m_waveFormat = NullFormat
        /\ ~m_stopEvent

\* The sample kinds the engine is specified to accept: int16, int32, float32.
SampleKindSupported(wf) ==
    \/ wf.wFormatTag = WAVE_FORMAT_IEEE_FLOAT /\ wf.wBitsPerSample = 32
    \/ wf.wFormatTag = WAVE_FORMAT_PCM /\ wf.wBitsPerSample \in {16, 32}

\* C9: initialize() returns true only for a mix format whose sample kind is
\* int16, int32 or float32.
C9_UnsupportedDepthRejected ==
    (Returned("c1", "initialize") /\ cl["c1"].res) =>
        SampleKindSupported(m_waveFormat)

\* C10: getFormat() reports one or two channels in every state.
C10_ChannelCountInvariant == getFormat.channelCount \in {1, 2}

\* C11: a start() that returned false has left no capture thread, a clear
\* capturing flag and a stopped device stream; the rollback of a failed
\* thread creation stops the stream before it clears the flag.
C11_StartFailureRollsBack ==
    /\ (Returned("c1", "start") /\ ~cl["c1"].res) =>
          /\ ~isCapturing
          /\ m_captureThread = Null
          /\ \A k \in CapThreads : thr[k].pc = "none"
          /\ ~streamRunning
    /\ At("c1", "start_unstore") => ~streamRunning

\* start() has returned false because CreateThread failed, in a session that
\* had delivered packets before.
C11_Witness ==
    /\ Returned("c1", "start") /\ cl["c1"].site = "nothread"
    /\ devSeq > 0

\* C12: start() on a capturing engine returns true at once and changes
\* nothing: the stream, the stop event, the thread and its handle stay.
C12_Step ==
    (StartCheck("c1") /\ isCapturing) =>
        /\ UNCHANGED <<handles, capstate, caplist, englist, device, thr, got, datapath>>
        /\ cl'["c1"].pc = "ret" /\ cl'["c1"].res

C12_StartWhileCapturing == [][C12_Step]_vars

\* start() returned through its first early return while the capture thread
\* is inside an observer's callback.
C12_Witness ==
    /\ Returned("c1", "start") /\ cl["c1"].site = "already"
    /\ \E k \in CapThreads : InCallback(k)
    /\ streamRunning /\ ~stopSignaled

\* C13: stop() on an engine that is not capturing returns at once and changes
\* nothing: no event is signaled, no stream stopped, no thread waited for, and
\* registrations and format stay.
C13_Step ==
    \A t \in Callers :
        (CallStop(t) \/ (StopCheck(t) /\ cl[t].op = "stop" /\ ~isCapturing)) =>
            /\ UNCHANGED <<handles, capstate, caplist, englist, device, thr, got, datapath>>
            /\ StopCheck(t) => (cl'[t].pc = "ret" /\ ~cl'[t].res)

C13_StopWhileIdle == [][C13_Step]_vars

\* A second stop() in a row has returned: the event of the first is still
\* signaled and the session had delivered packets.
C13_Witness ==
    /\ Returned("c1", "stop") /\ ~cl["c1"].res
    /\ stopSignaled /\ devSeq > 0 /\ m_audioClient

\* C14: shutdown() releases nothing that is not held (its CoUninitialize
\* balances a successful CoInitializeEx of this engine), and when it has
\* returned every handle is null, no thread is alive and the engine is not
\* capturing.
C14_Step == ShutdownRelease("c1") => (comUnbalanced' = comUnbalanced)

C14_State ==
    Returned("c1", "shutdown") =>
        /\ ~m_comInitialized
        /\ ~m_deviceEnumerator /\ ~m_device /\ ~m_audioClient /\ ~m_captureClient
        /\ m_waveFormat = NullFormat
        /\ ~m_stopEvent /\ m_captureThread = Null
        /\ \A k \in CapThreads : ~Alive(k)
        /\ ~isCapturing

C14_ShutdownReleasesOnce == []C14_State /\ [][C14_Step]_vars

\* The calls a caller has completed, the one it is returning from included.
Trace(t) ==
    cl[t].log \o (IF At(t, "ret") THEN <<Call(cl[t].op, cl[t].res, cl[t].site)>> ELSE <<>>)

AliveThreads == { k \in CapThreads : Alive(k) }

\* C15: whatever calls came before (two stop() in a row, a shutdown() with no
\* initialize() before it), a start() that follows a successful initialize()
\* is never refused for want of a client: it fails only where the device
\* stream or CreateThread fails; and when start() has returned true exactly one capture
\* thread is alive.
C15_Reinitializable ==
    LET tr == Trace("c1") IN
    /\ \A n \in 1..(Len(tr) - 1) :
          (tr[n].op = "initialize" /\ tr[n].res /\ tr[n + 1].op = "start") =>
              tr[n + 1].site # "noclient"
    /\ (Returned("c1", "start") /\ cl["c1"].res) => Cardinality(AliveThreads) = 1

\* stop(), stop(), initialize(), start(): the one thread is delivering a packet.
C15_Witness ==
    /\ Len(Trace("c1")) = 4
    /\ Trace("c1")[1] = Call("stop", FALSE, "end")
    /\ Trace("c1")[2] = Call("stop", FALSE, "end")
    /\ Trace("c1")[3] = Call("initialize", TRUE, "end")
    /\ Trace("c1")[4] = Call("start", TRUE, "end")
    /\ \E k \in CapThreads : InCallback(k) /\ AliveThreads = {k}

\* C16: once an initialized engine has been shut down, no later initialize()
\* or start() succeeds: the engine does not come back to Initialized or
\* Capturing.
C16_ShutdownTerminal ==
    LET tr == Trace("c1") IN
    \A n \in 1..Len(tr) : \A m \in (n + 1)..Len(tr) :
        (tr[n].op = "shutdown" /\ \E p \in 1..(n - 1) : tr[p].op = "initialize" /\ tr[p].res)
            => ~(tr[m].op \in {"initialize", "start"} /\ tr[m].res)

C18_MeteringOnce ==
    /\ Len(SelectSeq(m_callbacks, LAMBDA x : x = Metering)) <= 1
    /\ \A k \in CapThreads : InForward(k) => thr[k].i = 1

\* C19: the capture engine's list never holds an observer of the facade, so
\* onAudioData is invoked on the metering adapter alone; observers get
\* onMeterData.
C19_NoRawAudio ==
    /\ Range(m_callbacks) \cap Observers = {}
    /\ \A k \in CapThreads :
          (InFanOut(k) /\ thr[k].i \in 1..Len(m_callbacks)) => m_callbacks[thr[k].i] = Metering
    /\ \A k \in CapThreads : InCallback(k) => thr[k].cb \in Observers

\* Observer B is inside onMeterData while the capture engine's list holds the
\* adapter alone.
C19_Witness ==
    \E k \in CapThreads :
        /\ InCallback(k) /\ thr[k].cb = "B"
        /\ m_callbacks = <<Metering>>

\* C20: shutdown() leaves the facade's list empty, and an observer is inside
\* onMeterData only while it is in that list: after shutdown() it gets no
\* snapshot until it is registered again.
C20_Step == ShutdownClear("c1") => eng_callbacks' = <<>>

C20_State ==
    \A k \in CapThreads :
        InCallback(k) => \E p \in 1..Len(eng_callbacks) : eng_callbacks[p] = thr[k].cb

C20_ShutdownClears == []C20_State /\ [][C20_Step]_vars

\* initialize, start, shutdown, with A having received a packet before the
\* shutdown() that removed it.
C20_Witness ==
    /\ Returned("c1", "shutdown")
    /\ \E n \in 1..Len(Trace("c1")) : Trace("c1")[n] = Call("start", TRUE, "end")
    /\ got["A"] > 0
    /\ eng_callbacks = <<>>

\* C21: registering a null pointer, and unregistering a null pointer or an
\* observer that is not in the list, change nothing at all, at the facade and
\* at the capture engine (whose list takes the same two functions).
C21_Unknown == (Observers \cup {NullCb, Metering})

C21_State ==
    \A list \in {m_callbacks, eng_callbacks} :
        /\ registerCallback(list, NullCb) = list
        /\ \A cb \in C21_Unknown \ Range(list) : unregisterCallback(list, cb) = list

C21_Step ==
    /\ EngRegister(NullCb) => UNCHANGED vars
    /\ \A cb \in C21_Unknown \ Range(eng_callbacks) : EngUnregister(cb) => UNCHANGED vars
    /\ (ShutdownUnregister("c1") /\ Metering \notin Range(m_callbacks)) =>
           UNCHANGED <<handles, capstate, caplist, englist, device, thr, got, datapath>>

C21_NullAndUnknownNoOp == []C21_State /\ [][C21_Step]_vars

\* The facade's list holds B alone while A, which got a packet earlier, is no
\* longer in it: an unregisterCallback(A), like a registerCallback(null), can
\* run now.
C21_Witness ==
    /\ eng_callbacks = <<"B">> /\ eng_callbackMutex = Free
    /\ m_callbacks = <<Metering>>
    /\ got["A"] > 0

\* C22: registering an observer that is already in the list leaves the list
\* as it is, so no observer is in the facade's list twice.
C22_Step ==
    \A cb \in Observers :
        (EngRegister(cb) /\ cb \in Range(eng_callbacks)) => eng_callbacks' = eng_callbacks

C22_State ==
    \A p, q \in 1..Len(eng_callbacks) : eng_callbacks[p] = eng_callbacks[q] => p = q

C22_RegisterIdempotent == []C22_State /\ [][C22_Step]_vars

\* C23: at most one capture thread exists at any moment, whatever the
\* interleaving of start() and stop() calls of the two callers.
C23_OneCaptureThread == Cardinality(AliveThreads) <= 1

\* C24: in every sequence of lifecycle calls the handles are released
\* (releaseAudioClient, releaseCom, CloseHandle of the stop event) only when
\* no capture thread is alive: shutdown() releases with every thread joined,
\* and while a capture thread is alive the capture client it calls is not
\* null and the event it waits on is not closed.
C24_State ==
    \A k \in CapThreads :
        Alive(k) => /\ m_captureClient
                    /\ thr[k].wev => m_stopEvent
                    /\ ~At("c1", "sd_release")

C24_Step == ShutdownRelease("c1") => AliveThreads = {}

C24_TeardownAfterJoin == []C24_State /\ [][C24_Step]_vars

\* C25: the fan-out visits observers in registration order.  An observer is
\* registered behind all that are registered, observers that stay registered
\* keep their order, and while a snapshot is inside the callback of the
\* observer at position j, every observer before j has received it and no
\* observer that comes only after j has.
C25_Pos(list, o) == CHOOSE p \in 1..Len(list) : list[p] = o /\ \A q \in 1..(p - 1) : list[q] # o

C25_Step ==
    /\ \A o1, o2 \in Range(eng_callbacks) \cap Range(eng_callbacks') :
          (C25_Pos(eng_callbacks, o1) < C25_Pos(eng_callbacks, o2))
              <=> (C25_Pos(eng_callbacks', o1) < C25_Pos(eng_callbacks', o2))
    /\ \A o1 \in Range(eng_callbacks) \cap Range(eng_callbacks') :
          \A o2 \in Range(eng_callbacks') \ Range(eng_callbacks) :
              C25_Pos(eng_callbacks', o1) < C25_Pos(eng_callbacks', o2)
    /\ \A k \in CapThreads :
          /\ ForwardNext(k) => thr'[k].cb = eng_callbacks[thr[k].j] /\ thr'[k].j = thr[k].j
          /\ CallbackReturn(k) => thr'[k].j = thr[k].j + 1

C25_State ==
    \A k \in CapThreads : (InCallback(k) /\ thr[k].i = 1) =>
        \A p \in 1..Len(eng_callbacks) :
            /\ p < thr[k].j => got[eng_callbacks[p]] = thr[k].buf
            /\ (p > thr[k].j /\ C25_Pos(eng_callbacks, eng_callbacks[p]) > thr[k].j)
                  => got[eng_callbacks[p]] < thr[k].buf

C25_RegistrationOrder == []C25_State /\ [][C25_Step]_vars

\* B was registered before A: the first packet is inside B's callback and A,
\* behind it in the list, has not received it; then it is inside A's.
C25_Witness ==
    \E k \in CapThreads :
        /\ InCallback(k) /\ thr[k].cb = "A" /\ thr[k].j = 2 /\ thr[k].i = 1
        /\ eng_callbacks = <<"B", "A">>
        /\ thr[k].buf = 1 /\ got["B"] = 1

\* The packet in hand has been through processAudioData's conversion.
Processed(k) == thr[k].pc \in {"fan", "forward", "callback", "release"}
Zeros(n) == [d \in 1..n |-> 0]
Levels(s) == {s.peak.left, s.peak.right, s.rms.left, s.rms.right}

\* C26: a packet flagged silent reaches the observers as numFrames x
\* channelCount zeros, whatever its samples are, and the snapshot built from
\* it has peak and RMS 0 in both channels.
C26_SilenceIsZero ==
    \A k \in CapThreads : (Processed(k) /\ pData.silent) =>
        /\ m_floatBuffer = Zeros(pData.numFrames * m_format.channelCount)
        /\ InForward(k) => Levels(snapshot) = {0}

\* A silent int16 packet holding the two extreme samples is inside A's
\* callback with an all-zero snapshot.
C26_Witness ==
    \E k \in CapThreads :
        /\ InCallback(k) /\ thr[k].cb = "A"
        /\ pData = Packet(TRUE, 1, <<32767, -32768>>)
        /\ m_floatBuffer = <<0, 0>>
        /\ snapshot = NoSnapshot

\* C27: for a format that is not float32, int16 or int32 (another tag or
\* another bit depth) the converter writes 0 to all numFrames x channels
\* samples; in a session with such a format every packet still reaches the
\* observer, and the thread lives on.  A tag that initialize() turns down is
\* given to the converter with the packet in hand.
UnsupportedTags(channels) ==
    { WaveFormat(WAVE_FORMAT_EXTENSIBLE, bits, channels) : bits \in {8, 16, 24, 32, 64} }

C27_UnsupportedIsZero ==
    /\ pData # NoPacket =>
          \A wf \in UnsupportedTags(m_waveFormat.nChannels) :
              convertToFloat32(wf, pData.data, Resize(m_floatBuffer, Len(pData.data)),
                               pData.numFrames, 0) = Zeros(Len(pData.data))
    /\ ~SampleKindSupported(m_waveFormat) =>
          \A k \in CapThreads :
              /\ (Processed(k) /\ ~pData.silent) =>
                     m_floatBuffer = Zeros(pData.numFrames * m_format.channelCount)
              /\ On(k, "release") => got["A"] = thr[k].buf
              /\ k = "k1" => Alive(k)

\* C28: an int16 packet comes out with sample i at index i and value
\* x/32768: -32768 gives -1.0, 32767 gives 32767/32768, all within [-1, 1).
C28_Int16Scaled ==
    \A k \in CapThreads :
        (/\ Processed(k) /\ ~pData.silent
         /\ m_waveFormat.wFormatTag = WAVE_FORMAT_PCM /\ m_waveFormat.wBitsPerSample = 16) =>
            /\ Len(m_floatBuffer) = Len(pData.data)
            /\ \A d \in 1..Len(pData.data) :
                  /\ m_floatBuffer[d] * 32768 = pData.data[d] * Unit
                  /\ -Unit <= m_floatBuffer[d] /\ m_floatBuffer[d] < Unit
                  /\ pData.data[d] = -32768 => m_floatBuffer[d] = -Unit
                  /\ pData.data[d] = 32767 => m_floatBuffer[d] * 32768 = 32767 * Unit

\* A mono int16 packet with both extremes has been converted.
C28_Witness ==
    \E k \in CapThreads :
        /\ InCallback(k)
        /\ m_waveFormat = WaveFormat(WAVE_FORMAT_PCM, 16, 1)
        /\ pData = Packet(FALSE, 3, <<-32768, 32767, -1>>)
        /\ m_floatBuffer = <<-Unit, Unit - 1, -1>>

\* C29: the peak of a channel is the largest absolute value among the
\* samples of that channel in the buffer of this call, or 1.0 if that is
\* larger, whatever the buffers before were; for mono, right equals left;
\* mono [0.5, -0.8, 0.3] gives 0.8.
C29_ChannelPeak(level, c) ==
    LET own == { d \in 1..Len(m_floatBuffer) : (d - 1) % m_format.channelCount = c - 1 }
        Capped(d) == IF Abs(m_floatBuffer[d]) > Unit THEN Unit ELSE Abs(m_floatBuffer[d])
    IN /\ \A d \in own : level >= Capped(d)
       /\ \E d \in own : level = Capped(d)

C29_PeakIsMaxAbs ==
    \A k \in CapThreads : InForward(k) =>
        /\ C29_ChannelPeak(snapshot.peak.left, 1)
        /\ IF m_format.channelCount = 1 THEN snapshot.peak.right = snapshot.peak.left
                                         ELSE C29_ChannelPeak(snapshot.peak.right, 2)
        /\ m_floatBuffer = <<16384, -26208, 9824>> => snapshot.peak.left = 26208

\* The second buffer of a mono float session is [0.5, -0.8, 0.3] and its
\* snapshot has peak 0.8.
C29_Witness ==
    \E k \in CapThreads :
        /\ InCallback(k) /\ thr[k].buf = 2
        /\ m_format.channelCount = 1
        /\ m_floatBuffer = <<16384, -26208, 9824>>
        /\ snapshot.peak = Level(26208, 26208)

\* C30: every level of every snapshot lies in [0, 1], also for samples
\* outside [-1, 1].
C30_LevelsClamped == \A level \in Levels(snapshot) : 0 <= level /\ level <= Unit

\* A float buffer holding -1.5 gives peak 1.0 and RMS 1.0.
C30_Witness ==
    \E k \in CapThreads :
        /\ InCallback(k)
        /\ m_floatBuffer = <<-49152>>
        /\ snapshot.peak.left = Unit /\ snapshot.rms.left = Unit

\* C31: a channel whose samples in the buffer all have the same value a gets
\* the RMS |a|, or 1.0 if |a| is larger: exactly where a is a multiple of the
\* resolution the squares are taken in, and within that resolution otherwise.
C31_Constant(c) ==
    LET own == { d \in 1..Len(m_floatBuffer) : (d - 1) % m_format.channelCount = c - 1 }
    IN \A d, e \in own : m_floatBuffer[d] = m_floatBuffer[e]

C31_Expected(c) == Clamp01(Abs(m_floatBuffer[c]))

C31_RmsOfConstant ==
    \A k \in CapThreads : InForward(k) =>
        \A c \in 1..m_format.channelCount :
            LET rms == IF c = 1 THEN snapshot.rms.left ELSE snapshot.rms.right IN
            C31_Constant(c) =>
                /\ Abs(rms - C31_Expected(c)) < RmsGrain
                /\ m_floatBuffer[c] % RmsGrain = 0 => rms = C31_Expected(c)

\* Three mono samples of -0.8 give RMS 0.8.
C31_Witness ==
    \E k \in CapThreads :
        /\ InCallback(k)
        /\ m_floatBuffer = <<-26208, -26208, -26208>>
        /\ snapshot.rms = Level(26208, 26208)

\* C32: called with a frame count of zero, both meters return 0 for both
\* channels, whatever the buffer holds, and nothing is divided by zero; the
\* metering adapter does not even run them then, and builds no snapshot.
C32_ZeroFrames ==
    /\ (Returned("c1", "process") /\ pData.numFrames = 0) => snapshot = NoSnapshot
    /\ onAudioData(snapshot, m_floatBuffer, 0, m_format) = snapshot

\* A stereo call with no frames on a buffer that holds samples has returned.
C32_Witness ==
    /\ Returned("c1", "process") /\ pData.numFrames = 0
    /\ m_format.channelCount = 2
    /\ m_floatBuffer = <<-49152, 16384>>
    /\ snapshot = NoSnapshot

\* C33: in WinMain a failed initialize() or start() is followed by
\* window.run() and by nothing else; while the window runs with no capture
\* started, no thread exists and the callback has received no snapshot; and
\* the teardown is safe in every run: shutdown() releases the COM interfaces
\* with no capture thread alive and while COM is still initialized, and when
\* it has returned every handle is null, nothing captures and the callback is
\* not called any more.
C33_Failed(t) ==
    \/ LastCall(t).op = "initialize" /\ ~LastCall(t).res
    \/ LastCall(t).op = "start" /\ ~LastCall(t).res

C33_Step ==
    /\ (At("c1", "idle") /\ C33_Failed("c1") /\ cl'["c1"] # cl["c1"]) =>
           cl'["c1"].op = "run"
    /\ ShutdownRelease("c1") =>
           /\ AliveThreads = {}
           /\ (m_deviceEnumerator \/ m_device \/ m_audioClient \/ m_captureClient) =>
                  m_comInitialized

C33_State ==
    /\ (At("c1", "running") /\ C33_Failed("c1")) =>
           /\ AliveThreads = {} /\ ~isCapturing
           /\ got[GuiCallback] = 0 /\ snapshot = NoSnapshot
    /\ Returned("c1", "shutdown") =>
           /\ ~m_deviceEnumerator /\ ~m_device /\ ~m_audioClient /\ ~m_captureClient
           /\ ~m_comInitialized /\ ~m_stopEvent /\ m_captureThread = Null
           /\ AliveThreads = {} /\ ~isCapturing
           /\ eng_callbacks = <<>>

C33_GuiFailureHandling == []C33_State /\ [][C33_Step]_vars

\* C34: after a stop() has cleared the capturing flag and set the stop event,
\* a capture thread makes at most one more GetBuffer call (the one of the
\* iteration it was in) and so begins at most one more fan-out; the next loop
\* test ends it.
C34_Step ==
    \A k \in CapThreads : (PastSignal /\ ~m_capturing /\ LoopTest(k)) => thr'[k].pc = "exited"

C34_State == \A k \in CapThreads : thr[k].late <= 1

C34_OneMoreBuffer == []C34_State /\ [][C34_Step]_vars

\* stop() waits for the thread, which is inside A's callback with a packet it
\* took after the event was set.
C34_Witness ==
    \E k \in CapThreads :
        /\ At("c1", "stop_wait") /\ stopSignaled /\ ~m_capturing
        /\ InCallback(k) /\ thr[k].cb = "A"
        /\ thr[k].late = 1

\* C35: between the calls of the one caller thread, isCapturing() is true
\* exactly when some start() has returned true and neither stop() nor
\* shutdown() has been called since: false before the first such start(),
\* false once stop() has returned, and false after a start() that returned
\* false.
C35_Between(t) == At(t, "idle") \/ At(t, "ret")

C35_Started(tr) ==
    \E n \in 1..Len(tr) :
        /\ tr[n].op = "start" /\ tr[n].res
        /\ \A m \in (n + 1)..Len(tr) : tr[m].op \notin {"stop", "shutdown"}

C35_CapturingFlag ==
    C35_Between("c1") =>
        LET tr == Trace("c1") IN
        /\ isCapturing <=> C35_Started(tr)
        /\ (tr # <<>> /\ tr[Len(tr)].op = "start" /\ ~tr[Len(tr)].res) => ~isCapturing
        /\ (tr # <<>> /\ tr[Len(tr)].op = "stop") => ~isCapturing

\* initialize, start (true), stop, and a start() that failed to create its
\* thread: the flag is clear.
C35_Witness ==
    /\ Len(Trace("c1")) = 4
    /\ Trace("c1")[2] = Call("start", TRUE, "end")
    /\ Trace("c1")[3] = Call("stop", TRUE, "end")
    /\ Trace("c1")[4] = Call("start", FALSE, "nothread")
    /\ At("c1", "ret") /\ ~isCapturing

\* C36: the two callback locks are held by capture threads only, the
\* facade's one only inside the capture engine's one (that order), so a caller
\* never holds a lock while it takes the other or waits for the thread; and
\* no state is stuck: while a caller is inside a call or a capture thread is
\* alive, the caller or some capture thread can take a step.
C36_Busy(t) == cl[t].pc \notin {"idle", "ret"}

C36_LockOrder ==
    /\ {m_callbackMutex, eng_callbackMutex} \subseteq CapThreads \cup {Free}
    /\ \A k \in CapThreads :
          /\ eng_callbackMutex = k => (m_callbackMutex = k /\ InForward(k))
          /\ m_callbackMutex = k => InFanOut(k)
    /\ (C36_Busy("c1") \/ AliveThreads # {}) =>
          \/ ENABLED CallerBody("c1")
          \/ \E k \in CapThreads : ENABLED CaptureStep(k)

\* shutdown() is at the join of its stop() while the thread, holding both
\* locks, is inside the callback of the second of two observers.
C36_Witness ==
    \E k \in CapThreads :
        /\ At("c1", "stop_wait") /\ cl["c1"].op = "shutdown"
        /\ InCallback(k) /\ thr[k].j = 2
        /\ m_callbackMutex = k /\ eng_callbackMutex = k

\* C37: a registerCallback or unregisterCallback made by an observer from
\* inside its onMeterData returns, and the fan-out goes on as before: the
\* capture thread is never left blocked on the facade's lock or terminated,
\* and it still holds that lock for the rest of the traversal.
C37_ReentrantCallReturns ==
    \A k \in CapThreads :
        /\ thr[k].pc \notin {"blocked", "terminated"}
        /\ InForward(k) => eng_callbackMutex = k

\* A start() of the log that the guard of start() turned down: it returned
\* false from its test of the two clients, before it touched the event, the
\* stream or CreateThread.
Refused(call) == ~call.res /\ call.site = "noclient"

\* Nothing runs: no capture thread, a clear flag, a stopped stream.
Quiet == AliveThreads = {} /\ ~isCapturing /\ ~streamRunning /\ m_captureThread = Null

\* C38: a start() on an engine that is not initialized (no initialize() has
\* returned true so far, or none since the last shutdown()) returns false at
\* its guard, and while the engine is not initialized nothing runs.
C38_Uninitialized(tr, m) ==
    ~\E n \in 1..(m - 1) :
        /\ tr[n].op = "initialize" /\ tr[n].res
        /\ \A p \in (n + 1)..(m - 1) : tr[p].op # "shutdown"

C38_StartUninitialized ==
    LET tr == Trace("c1") IN
    /\ \A m \in 1..Len(tr) :
          (tr[m].op = "start" /\ C38_Uninitialized(tr, m)) => Refused(tr[m])
    /\ (C35_Between("c1") /\ C38_Uninitialized(tr, Len(tr) + 1)) => Quiet

\* C39: once an initialize() has returned false, at whichever call it failed,
\* every start() up to the next initialize() that returns true returns false
\* at its guard, and nothing runs in between.
C39_InitFailed(tr, m) ==
    \E n \in 1..(m - 1) :
        /\ tr[n].op = "initialize" /\ ~tr[n].res
        /\ \A p \in (n + 1)..(m - 1) : ~(tr[p].op = "initialize" /\ tr[p].res)

C39_FailedInitNotStartable ==
    LET tr == Trace("c1") IN
    /\ \A m \in 1..Len(tr) :
          (tr[m].op = "start" /\ C39_InitFailed(tr, m)) => Refused(tr[m])
    /\ (C35_Between("c1") /\ C39_InitFailed(tr, Len(tr) + 1)) => Quiet

\* C40: with start() and stop() racing on two caller threads, every stop()
\* that has passed its early return gets back from its wait for the thread.
C40_RacingStopReturns == \A t \in Callers : Stopping(t) ~> Returned(t, "stop")

====
